---- MODULE Spec2Model ----
(***************************************************************************)
(* Model of obs-livesplit-one (src/src/lib.rs): the shared timer registry  *)
(* TIMERS, the per-source State and its lifecycle callbacks (create,       *)
(* update, destroy), the render callback and the timer control callbacks.  *)
(*                                                                         *)
(* Every source (instance) has one host thread driving its lifecycle       *)
(* callbacks; pc[i] is that thread's position.  The render callback and    *)
(* the control callbacks run on other host threads and may interleave with *)
(* an update of the same source.  The statements of one callback that      *)
(* other threads can observe separately are separate actions.  ctl[i] is   *)
(* the position of the thread running the source's media_restart when that *)
(* callback is followed statement by statement.                            *)
(***************************************************************************)
EXTENDS Integers, Sequences, FiniteSets

\* ---------------------------------------------------------------- bounds
NumInst == 2        \* sources the host creates
MaxSegs == 2        \* segments of the longest run a splits file holds
MaxScroll == 1      \* rows a layout is scrolled away from its start, either way

Inst == 1..NumInst
Paths == {"A", "B"}
\* Addresses of Timer allocations: each instance holds at most three Arcs
\* (State.timer, the auto-splitter's clone, a resolve's local), and the
\* registry at most one Weak more than there are live timers.
TimerIds == 1..(3 * NumInst + 1)

\* ------------------------------------------------------- program constants
DefaultWidth == 300
DefaultHeight == 500
Widths == {DefaultWidth, 800}
Heights == {DefaultHeight, 600}

NoTimer == 0
NoTexture == 0
NoThread == 0
Freed == [phase |-> "Freed", index |-> 0, segs |-> 0, method |-> "RealTime",
          comparison |-> 0]
NoFrame == [buffer |-> <<0, 0>>, target |-> <<0, 0>>, snapshot |-> Freed]
NoSettings == [run |-> 0, splits_path |-> "", can_save_splits |-> FALSE,
               width |-> 0, height |-> 0]

VARIABLES
    autoSplitting,    \* cfg(feature = "auto-splitting") of the build
    TIMERS,           \* the registry: sequence of (path, weak timer)
    lockHolder,       \* thread holding the TIMERS mutex, or NoThread
    poisoned,         \* the TIMERS mutex was poisoned by a panic
    timerObj,         \* heap of Timer objects behind Arc<RwLock<Timer>>
    pc,               \* position of each source's lifecycle thread
    timer,            \* State.timer
    splits_path,      \* State.splits_path
    can_save_splits,  \* State.can_save_splits
    auto_splitter,    \* timer held by State.auto_splitter
    texture,          \* State.texture
    width,            \* State.width
    height,           \* State.height
    settings,         \* local `settings` of create / update
    newTimer,         \* local `timer` of State::new / update
    newTexture,       \* local `texture` of update
    textures,         \* live host render targets: handle -> dimensions
    graphics,         \* thread inside obs_enter_graphics, or NoThread
    frame,            \* last upload of each source: buffer and target sizes
    disk,             \* splits files: "orig" or "saved" by save_splits
    layout,           \* State.layout: scroll offset of its splits component
    rwlock,           \* source whose control thread holds a Timer's write guard
    ctl,              \* position of each source's control thread
    seen              \* media state last reported to the host for each source

vars == <<autoSplitting, TIMERS, lockHolder, poisoned, timerObj,
          pc, timer, splits_path, can_save_splits, auto_splitter, texture,
          width, height, settings, newTimer, newTexture, textures, graphics,
          frame, disk, layout, rwlock, ctl, seen>>

registryVars == <<TIMERS, lockHolder, poisoned>>
stateVars == <<timer, splits_path, can_save_splits, auto_splitter, texture,
               width, height>>
localVars == <<settings, newTimer, newTexture>>
hostVars == <<textures, graphics, frame, disk>>
controlVars == <<rwlock, ctl, seen>>

\* ------------------------------------------------------------ splits files
\* What fs::read and composite::parse can find at a splits path.
Files ==
    {[kind |-> "missing", segs |-> 0], [kind |-> "garbage", segs |-> 0]}
    \cup [kind : {"LiveSplit", "Other"}, segs : 0..MaxSegs]

None == [some |-> FALSE, run |-> 0, can_save |-> FALSE]
Some(run, can_save) == [some |-> TRUE, run |-> run, can_save |-> can_save]

\* A parse that hands on a run without segments.
parse_run_KeepsEmpty(file) ==
    IF file.kind = "missing" THEN None
    ELSE IF file.kind = "garbage" THEN None
    ELSE Some(file.segs, file.kind = "LiveSplit")

\* A run is modelled by its number of segments.
parse_run(file) ==
    IF file.kind = "missing" THEN None
    ELSE IF file.kind = "garbage" THEN None
    ELSE IF file.segs = 0 THEN None
    ELSE Some(file.segs, file.kind = "LiveSplit")

default_run == Some(1, FALSE)

parse_settings(path, file, w, h) ==
    LET parsed == IF parse_run(file).some THEN parse_run(file) ELSE default_run
    IN  [run |-> parsed.run, splits_path |-> path,
         can_save_splits |-> parsed.can_save, width |-> w, height |-> h]

\* ------------------------------------------------------------------ Arc
\* Owning references to Timer object t: State.timer fields, the clones held
\* by auto-splitter runtimes, and the locals of resolves in flight.
StrongCountOf(t, tm, as, nt) ==
    Cardinality({i \in Inst : tm[i] = t}) + Cardinality({i \in Inst : as[i] = t})
    + Cardinality({i \in Inst : nt[i] = t})

strong_count(t) == StrongCountOf(t, timer, auto_splitter, newTimer)

\* Dropping the last Arc frees the Timer.
DropDead(obj, tm, as, nt) ==
    [t \in TimerIds |-> IF StrongCountOf(t, tm, as, nt) = 0 THEN Freed ELSE obj[t]]

\* Timer::new(run): fails on a run without segments.
TimerNew(run) ==
    IF run = 0 THEN [ok |-> FALSE, timer |-> Freed]
    ELSE [ok |-> TRUE,
          timer |-> [phase |-> "NotRunning", index |-> 0, segs |-> run,
                     method |-> "RealTime", comparison |-> 0]]

\* ------------------------------------------------------------- registry
\* A prune that removes nothing.
Retain_KeepAll(ts) == ts

RECURSIVE Retain(_)
\* timers.retain(|(_, timer)| timer.strong_count() > 0)
Retain(ts) ==
    IF ts = <<>> THEN <<>>
    ELSE IF strong_count(Head(ts).timer) > 0
         THEN <<Head(ts)>> \o Retain(Tail(ts))
         ELSE Retain(Tail(ts))

\* An upgrade that hands out the object whether or not an owner is left.
upgrade_Dead(t) == t

\* Weak::upgrade
upgrade(t) == IF strong_count(t) > 0 THEN t ELSE NoTimer

\* A lookup that never matches.
FindMap_NoReuse(ts, p) == NoTimer

RECURSIVE FindMap(_, _)
\* timers.iter().find_map(|(path, timer)| if path == p { timer.upgrade() } else { None })
FindMap(ts, p) ==
    IF ts = <<>> THEN NoTimer
    ELSE IF Head(ts).path = p /\ upgrade(Head(ts).timer) # NoTimer
         THEN upgrade(Head(ts).timer)
         ELSE FindMap(Tail(ts), p)

\* Arc::new allocates where no Arc and no Weak points any more.
Unreferenced(t) ==
    strong_count(t) = 0 /\ \A k \in 1..Len(TIMERS) : TIMERS[k].timer # t

FreshTimer ==
    CHOOSE t \in TimerIds :
        Unreferenced(t) /\ \A u \in TimerIds : u < t => ~Unreferenced(u)

\* A mutex that excludes nobody.
MutexFree_NoExclusion == TRUE

\* TIMERS.lock() returns once no other thread holds the guard.
MutexFree == lockHolder = NoThread

\* let mut timers = TIMERS.lock().unwrap(); timers.retain(..)
LockAndPrune(i, from, to) ==
    /\ pc[i] = from
    /\ MutexFree
    /\ ~poisoned
    /\ lockHolder' = i
    /\ TIMERS' = Retain(TIMERS)
    /\ pc' = [pc EXCEPT ![i] = to]
    /\ UNCHANGED <<autoSplitting, layout, controlVars, poisoned, timerObj, stateVars, localVars,
                   hostVars>>

\* A lookup that gives the mutex up before the Timer of a miss is stored.
Find_UnlockOnMiss(i, from, store, to) ==
    /\ pc[i] = from
    /\ LET found == FindMap(TIMERS, settings[i].splits_path)
       IN  IF found # NoTimer
           THEN /\ newTimer' = [newTimer EXCEPT ![i] = found]
                /\ settings' = [settings EXCEPT ![i].run = 0]
                /\ pc' = [pc EXCEPT ![i] = to]
           ELSE /\ pc' = [pc EXCEPT ![i] = store]
                /\ UNCHANGED <<newTimer, settings>>
    /\ lockHolder' = NoThread
    /\ UNCHANGED <<autoSplitting, layout, controlVars, TIMERS, poisoned, timerObj, stateVars,
                   newTexture, hostVars>>

\* A lookup that rebuilds the Timer it finds from the run just parsed.
Find_Rebuild(i, from, store, to) ==
    /\ pc[i] = from
    /\ LET found == FindMap(TIMERS, settings[i].splits_path)
       IN  IF found # NoTimer
           THEN /\ newTimer' = [newTimer EXCEPT ![i] = found]
                /\ timerObj' = [timerObj EXCEPT ![found] = TimerNew(settings[i].run).timer]
                /\ lockHolder' = NoThread
                /\ settings' = [settings EXCEPT ![i].run = 0]
                /\ pc' = [pc EXCEPT ![i] = to]
           ELSE /\ pc' = [pc EXCEPT ![i] = store]
                /\ UNCHANGED <<newTimer, timerObj, lockHolder, settings>>
    /\ UNCHANGED <<autoSplitting, layout, controlVars, TIMERS, poisoned, stateVars,
                   newTexture, hostVars>>

\* The lookup.  A hit leaves the block with the upgraded Arc, which releases
\* the guard; a miss goes on to construct a Timer, the guard still held.
Find(i, from, store, to) ==
    /\ pc[i] = from
    /\ LET found == FindMap(TIMERS, settings[i].splits_path)
       IN  IF found # NoTimer
           THEN /\ newTimer' = [newTimer EXCEPT ![i] = found]
                /\ lockHolder' = NoThread
                /\ settings' = [settings EXCEPT ![i].run = 0]
                /\ pc' = [pc EXCEPT ![i] = to]
           ELSE /\ pc' = [pc EXCEPT ![i] = store]
                /\ UNCHANGED <<newTimer, lockHolder, settings>>
    /\ UNCHANGED <<autoSplitting, layout, controlVars, TIMERS, poisoned, timerObj, stateVars,
                   newTexture, hostVars>>

\* An insert that leaves the block without giving up the guard.
Store_KeepsLock(i, store, to) ==
    /\ pc[i] = store
    /\ newTimer' = [newTimer EXCEPT ![i] = FreshTimer]
    /\ timerObj' = [timerObj EXCEPT ![FreshTimer] = TimerNew(settings[i].run).timer]
    /\ TIMERS' = Append(TIMERS, [path |-> settings[i].splits_path,
                                 timer |-> FreshTimer])
    /\ pc' = [pc EXCEPT ![i] = to]
    /\ settings' = [settings EXCEPT ![i].run = 0]
    /\ UNCHANGED <<autoSplitting, layout, controlVars, lockHolder, poisoned,
                   stateVars, newTexture, hostVars>>

\* Timer::new(run).unwrap().into_shared(); timers.push(..); the guard is
\* released at the end of the block.  A failing Timer::new panics in unwrap()
\* while the guard is held, which poisons the mutex.
Store(i, store, to) ==
    /\ pc[i] = store
    /\ LET made == TimerNew(settings[i].run)
       IN  IF made.ok
           THEN /\ newTimer' = [newTimer EXCEPT ![i] = FreshTimer]
                /\ timerObj' = [timerObj EXCEPT ![FreshTimer] = made.timer]
                /\ TIMERS' = Append(TIMERS, [path |-> settings[i].splits_path,
                                             timer |-> FreshTimer])
                /\ pc' = [pc EXCEPT ![i] = to]
                /\ UNCHANGED poisoned
           ELSE /\ poisoned' = TRUE
                /\ pc' = [pc EXCEPT ![i] = "panicked"]
                /\ UNCHANGED <<TIMERS, timerObj, newTimer>>
    /\ lockHolder' = NoThread
    /\ settings' = [settings EXCEPT ![i].run = 0]
    /\ UNCHANGED <<autoSplitting, layout, controlVars, stateVars, newTexture, hostVars>>

\* ------------------------------------------------- host render targets
TexIds == 1..(2 * NumInst)
NoDims == <<0, 0>>

\* gs_texture_create returns a handle that is not in use.
FreshTexture == CHOOSE h \in TexIds : textures[h] = NoDims /\ \A k \in TexIds : k < h => textures[k] # NoDims

gs_texture_create(w, h) == [textures EXCEPT ![FreshTexture] = <<w, h>>]

gs_texture_destroy(tex) == [textures EXCEPT ![tex] = NoDims]

\* ------------------------------------------------------------- create
\* create: parse_settings(settings), before State::new
create(i, path, file, w, h) ==
    /\ pc[i] = "uninit"
    /\ settings' = [settings EXCEPT ![i] = parse_settings(path, file, w, h)]
    /\ pc' = [pc EXCEPT ![i] = "new_lock"]
    /\ UNCHANGED <<autoSplitting, layout, controlVars, registryVars, timerObj, stateVars, newTimer,
                   newTexture, hostVars>>

new_lock(i) == LockAndPrune(i, "new_lock", "new_find")

new_find(i) == Find(i, "new_find", "new_store", "new_finish")

new_store(i) == Store(i, "new_store", "new_finish")

\* State::new after the registry block: the auto-splitter runtime takes a
\* clone of the timer, the render target is created, the State is built.
new_finish(i) ==
    /\ pc[i] = "new_finish"
    /\ graphics = NoThread
    /\ auto_splitter' = [auto_splitter EXCEPT
                           ![i] = IF autoSplitting THEN newTimer[i] ELSE NoTimer]
    /\ textures' = gs_texture_create(settings[i].width, settings[i].height)
    /\ texture' = [texture EXCEPT ![i] = FreshTexture]
    /\ timer' = [timer EXCEPT ![i] = newTimer[i]]
    /\ splits_path' = [splits_path EXCEPT ![i] = settings[i].splits_path]
    /\ can_save_splits' = [can_save_splits EXCEPT ![i] = settings[i].can_save_splits]
    /\ width' = [width EXCEPT ![i] = settings[i].width]
    /\ height' = [height EXCEPT ![i] = settings[i].height]
    /\ layout' = [layout EXCEPT ![i] = 0]
    /\ newTimer' = [newTimer EXCEPT ![i] = NoTimer]
    /\ settings' = [settings EXCEPT ![i] = NoSettings]
    /\ pc' = [pc EXCEPT ![i] = "active"]
    /\ UNCHANGED <<autoSplitting, controlVars, registryVars, timerObj, newTexture, graphics,
                   frame, disk>>

\* ------------------------------------------------------------- update
\* update: parse_settings(settings)
update(i, path, file, w, h) ==
    /\ pc[i] = "active"
    /\ settings' = [settings EXCEPT ![i] = parse_settings(path, file, w, h)]
    /\ pc' = [pc EXCEPT ![i] = "upd_lock"]
    /\ UNCHANGED <<autoSplitting, layout, controlVars, registryVars, timerObj, stateVars, newTimer,
                   newTexture, hostVars>>

upd_lock(i) == LockAndPrune(i, "upd_lock", "upd_find")

upd_find(i) == Find(i, "upd_find", "upd_store", "upd_path")

upd_store(i) == Store(i, "upd_store", "upd_path")

\* state.splits_path = settings.splits_path
upd_path(i) ==
    /\ pc[i] = "upd_path"
    /\ splits_path' = [splits_path EXCEPT ![i] = settings[i].splits_path]
    /\ pc' = [pc EXCEPT ![i] = "upd_flag"]
    /\ UNCHANGED <<autoSplitting, layout, controlVars, registryVars, timerObj, timer, can_save_splits,
                   auto_splitter, texture, width, height, localVars, hostVars>>

\* state.can_save_splits = settings.can_save_splits
upd_flag(i) ==
    /\ pc[i] = "upd_flag"
    /\ can_save_splits' = [can_save_splits EXCEPT ![i] = settings[i].can_save_splits]
    /\ pc' = [pc EXCEPT ![i] = "upd_timer"]
    /\ UNCHANGED <<autoSplitting, layout, controlVars, registryVars, timerObj, timer, splits_path,
                   auto_splitter, texture, width, height, localVars, hostVars>>

\* An update that drops the resolved timer and keeps the one it held.
upd_timer_KeepTimer(i) ==
    /\ pc[i] = "upd_timer"
    /\ newTimer' = [newTimer EXCEPT ![i] = NoTimer]
    /\ timerObj' = DropDead(timerObj, timer, auto_splitter, newTimer')
    /\ pc' = [pc EXCEPT ![i] = "upd_size"]
    /\ UNCHANGED <<autoSplitting, layout, controlVars, registryVars, stateVars, settings, newTexture,
                   hostVars>>

\* An update that resets the Timer it lets go of.
upd_timer_ResetOld(i) ==
    /\ pc[i] = "upd_timer"
    /\ timer' = [timer EXCEPT ![i] = newTimer[i]]
    /\ newTimer' = [newTimer EXCEPT ![i] = NoTimer]
    /\ timerObj' = [DropDead(timerObj, timer', auto_splitter, newTimer')
                      EXCEPT ![timer[i]] = IF timer'[i] = timer[i] \/ @ = Freed
                                           THEN @
                                           ELSE [@ EXCEPT !.phase = "NotRunning",
                                                          !.index = 0]]
    /\ layout' = [layout EXCEPT ![i] = 0]
    /\ pc' = [pc EXCEPT ![i] = "upd_size"]
    /\ UNCHANGED <<autoSplitting, controlVars, registryVars, splits_path, can_save_splits,
                   auto_splitter, texture, width, height, settings, newTexture,
                   hostVars>>

\* state.timer = timer (the Arc held before is dropped); state.layout = ..;
\* the auto-splitter runtime is kept and at most loads another script.
upd_timer(i) ==
    /\ pc[i] = "upd_timer"
    /\ timer' = [timer EXCEPT ![i] = newTimer[i]]
    /\ newTimer' = [newTimer EXCEPT ![i] = NoTimer]
    /\ timerObj' = DropDead(timerObj, timer', auto_splitter, newTimer')
    /\ layout' = [layout EXCEPT ![i] = 0]
    /\ pc' = [pc EXCEPT ![i] = "upd_size"]
    /\ UNCHANGED <<autoSplitting, controlVars, registryVars, splits_path, can_save_splits,
                   auto_splitter, texture, width, height, settings, newTexture,
                   hostVars>>

\* A size test that always asks for a new render target.
SizeChanged_Always(i) == TRUE

\* if state.width != settings.width || state.height != settings.height
SizeChanged(i) == width[i] # settings[i].width \/ height[i] # settings[i].height

\* the test and, when it holds, the assignments of width and height
upd_size(i) ==
    /\ pc[i] = "upd_size"
    /\ IF SizeChanged(i)
       THEN /\ width' = [width EXCEPT ![i] = settings[i].width]
            /\ height' = [height EXCEPT ![i] = settings[i].height]
            /\ pc' = [pc EXCEPT ![i] = "upd_create"]
       ELSE /\ pc' = [pc EXCEPT ![i] = "active"]
            /\ UNCHANGED <<width, height>>
    /\ settings' = [settings EXCEPT ![i] = NoSettings]
    /\ UNCHANGED <<autoSplitting, layout, controlVars, registryVars, timerObj, timer, splits_path,
                   can_save_splits, auto_splitter, texture, newTimer, newTexture,
                   hostVars>>

\* obs_enter_graphics(); let mut texture = gs_texture_create(..)
upd_create(i) ==
    /\ pc[i] = "upd_create"
    /\ graphics = NoThread
    /\ graphics' = i
    /\ textures' = gs_texture_create(width[i], height[i])
    /\ newTexture' = [newTexture EXCEPT ![i] = FreshTexture]
    /\ pc' = [pc EXCEPT ![i] = "upd_swap"]
    /\ UNCHANGED <<autoSplitting, layout, controlVars, registryVars, timerObj, stateVars, settings,
                   newTimer, frame, disk>>

\* mem::swap(&mut state.texture, &mut texture)
upd_swap(i) ==
    /\ pc[i] = "upd_swap"
    /\ texture' = [texture EXCEPT ![i] = newTexture[i]]
    /\ newTexture' = [newTexture EXCEPT ![i] = texture[i]]
    /\ pc' = [pc EXCEPT ![i] = "upd_destroy"]
    /\ UNCHANGED <<autoSplitting, layout, controlVars, registryVars, timerObj, timer, splits_path,
                   can_save_splits, auto_splitter, width, height, settings,
                   newTimer, hostVars>>

\* A resize that destroys the target the instance holds after the swap.
upd_destroy_Current(i) ==
    /\ pc[i] = "upd_destroy"
    /\ textures' = gs_texture_destroy(texture[i])
    /\ newTexture' = [newTexture EXCEPT ![i] = NoTexture]
    /\ graphics' = NoThread
    /\ pc' = [pc EXCEPT ![i] = "active"]
    /\ UNCHANGED <<autoSplitting, layout, controlVars, registryVars, timerObj, stateVars, settings,
                   newTimer, frame, disk>>

\* gs_texture_destroy(texture); obs_leave_graphics()
upd_destroy(i) ==
    /\ pc[i] = "upd_destroy"
    /\ textures' = gs_texture_destroy(newTexture[i])
    /\ newTexture' = [newTexture EXCEPT ![i] = NoTexture]
    /\ graphics' = NoThread
    /\ pc' = [pc EXCEPT ![i] = "active"]
    /\ UNCHANGED <<autoSplitting, layout, controlVars, registryVars, timerObj, stateVars, settings,
                   newTimer, frame, disk>>

\* ------------------------------------------------------------- destroy
\* A destroy that leaves the render target to the host.
destroy_KeepsTarget(i) ==
    /\ pc[i] = "active"
    /\ graphics = NoThread
    /\ pc' = [pc EXCEPT ![i] = "dropping"]
    /\ UNCHANGED <<autoSplitting, layout, controlVars, registryVars, timerObj,
                   stateVars, localVars, hostVars>>

\* Box::from_raw; obs_enter_graphics(); gs_texture_destroy(state.texture);
\* obs_leave_graphics()
destroy(i) ==
    /\ pc[i] = "active"
    /\ graphics = NoThread
    /\ textures' = gs_texture_destroy(texture[i])
    /\ pc' = [pc EXCEPT ![i] = "dropping"]
    /\ UNCHANGED <<autoSplitting, layout, controlVars, registryVars, timerObj, stateVars, localVars,
                   graphics, frame, disk>>

\* the State is dropped at the end of destroy: its Arcs are released
destroy_drop(i) ==
    /\ pc[i] = "dropping"
    /\ timer' = [timer EXCEPT ![i] = NoTimer]
    /\ auto_splitter' = [auto_splitter EXCEPT ![i] = NoTimer]
    /\ timerObj' = DropDead(timerObj, timer', auto_splitter', newTimer)
    /\ texture' = [texture EXCEPT ![i] = NoTexture]
    /\ splits_path' = [splits_path EXCEPT ![i] = ""]
    /\ can_save_splits' = [can_save_splits EXCEPT ![i] = FALSE]
    /\ width' = [width EXCEPT ![i] = 0]
    /\ height' = [height EXCEPT ![i] = 0]
    /\ frame' = [frame EXCEPT ![i] = NoFrame]
    /\ layout' = [layout EXCEPT ![i] = 0]
    /\ pc' = [pc EXCEPT ![i] = "destroyed"]
    /\ UNCHANGED <<autoSplitting, controlVars, registryVars, localVars, textures, graphics, disk>>

\* --------------------------------------------------------------- Timer
\* The operations of livesplit_core::Timer the callbacks call, on the phase
\* and the index of the current segment (the number of recorded splits).
TimerStart(t) ==
    IF t.phase = "NotRunning" THEN [t EXCEPT !.phase = "Running"] ELSE t

TimerSplit(t) ==
    IF t.phase = "Running"
    THEN [t EXCEPT !.index = @ + 1,
                   !.phase = IF t.index + 1 = t.segs THEN "Ended" ELSE "Running"]
    ELSE t

TimerSplitOrStart(t) ==
    IF t.phase = "NotRunning" THEN TimerStart(t) ELSE TimerSplit(t)

TimerPause(t) ==
    IF t.phase = "Running" THEN [t EXCEPT !.phase = "Paused"] ELSE t

TimerResume(t) ==
    IF t.phase = "Paused" THEN [t EXCEPT !.phase = "Running"] ELSE t

TimerReset(t) ==
    IF t.phase # "NotRunning" THEN [t EXCEPT !.phase = "NotRunning", !.index = 0] ELSE t

TimerUndoSplit(t) ==
    IF t.phase # "NotRunning" /\ t.index > 0
    THEN [t EXCEPT !.index = @ - 1,
                   !.phase = IF t.phase = "Ended" THEN "Running" ELSE t.phase]
    ELSE t

TimerSkipSplit(t) ==
    IF t.phase \in {"Running", "Paused"} /\ t.index + 1 < t.segs
    THEN [t EXCEPT !.index = @ + 1]
    ELSE t

TimerTogglePauseOrStart(t) ==
    IF t.phase = "NotRunning" THEN TimerStart(t)
    ELSE IF t.phase = "Running" THEN TimerPause(t)
    ELSE TimerResume(t)

TimerUndoAllPauses(t) == TimerResume(t)

\* The comparisons of a run, in the order the switches go through them.
NumComparisons == 3

TimerSwitchToPreviousComparison(t) ==
    [t EXCEPT !.comparison = (@ + NumComparisons - 1) % NumComparisons]

TimerSwitchToNextComparison(t) ==
    [t EXCEPT !.comparison = (@ + 1) % NumComparisons]

TimerToggleTimingMethod(t) ==
    [t EXCEPT !.method = IF @ = "RealTime" THEN "GameTime" ELSE "RealTime"]

\* An instance whose State exists: between create and destroy.
Alive == {"active", "upd_lock", "upd_find", "upd_store", "upd_path", "upd_flag",
          "upd_timer", "upd_size",
          "upd_create", "upd_swap", "upd_destroy"}

\* An RwLock that lets every caller in.
Unlocked_NoExclusion(t) == TRUE

\* RwLock::read and RwLock::write return once no write guard is held.  A
\* read guard is taken and dropped within one step of its callback, so only
\* write guards are recorded.
Unlocked(t) == rwlock[t] = NoThread

\* state.timer.write().unwrap(): the callback's effect on the shared Timer
WriteTimer(i, new) ==
    /\ pc[i] \in Alive
    /\ Unlocked(timer[i])
    /\ timerObj' = [timerObj EXCEPT ![timer[i]] = new]
    /\ UNCHANGED <<autoSplitting, layout, controlVars, registryVars, pc, stateVars, localVars, hostVars>>

\* ------------------------------------------------------------ controls
\* A hotkey handler that acts on the release of its key as on the press.
Hotkey_OnRelease(i, pressed, new) == WriteTimer(i, new)

\* if pressed { state.timer.write().unwrap().<operation>(); }
Hotkey(i, pressed, new) ==
    IF pressed THEN WriteTimer(i, new)
    ELSE pc[i] \in Alive /\ UNCHANGED vars

\* The nine hotkeys of a source.  (The handler of the pause hotkey is named
\* pause in the source.)
split(i, pressed) == Hotkey(i, pressed, TimerSplitOrStart(timerObj[timer[i]]))

reset(i, pressed) == Hotkey(i, pressed, TimerReset(timerObj[timer[i]]))

undo(i, pressed) == Hotkey(i, pressed, TimerUndoSplit(timerObj[timer[i]]))

skip(i, pressed) == Hotkey(i, pressed, TimerSkipSplit(timerObj[timer[i]]))

pause_hotkey(i, pressed) ==
    Hotkey(i, pressed, TimerTogglePauseOrStart(timerObj[timer[i]]))

undo_all_pauses(i, pressed) ==
    Hotkey(i, pressed, TimerUndoAllPauses(timerObj[timer[i]]))

previous_comparison(i, pressed) ==
    Hotkey(i, pressed, TimerSwitchToPreviousComparison(timerObj[timer[i]]))

next_comparison(i, pressed) ==
    Hotkey(i, pressed, TimerSwitchToNextComparison(timerObj[timer[i]]))

toggle_timing_method(i, pressed) ==
    Hotkey(i, pressed, TimerToggleTimingMethod(timerObj[timer[i]]))

\* A play/pause that restarts an ended timer on play.
PlayPause_RestartEnded(t, pause) ==
    IF t.phase = "NotRunning" THEN (IF ~pause THEN TimerStart(t) ELSE t)
    ELSE IF t.phase = "Running" THEN (IF pause THEN TimerPause(t) ELSE t)
    ELSE IF t.phase = "Ended" THEN (IF ~pause THEN TimerStart(TimerReset(t)) ELSE t)
    ELSE (IF ~pause THEN TimerResume(t) ELSE t)

PlayPause(t, pause) ==
    IF t.phase = "NotRunning" THEN (IF ~pause THEN TimerStart(t) ELSE t)
    ELSE IF t.phase = "Running" THEN (IF pause THEN TimerPause(t) ELSE t)
    ELSE IF t.phase = "Ended" THEN t
    ELSE (IF ~pause THEN TimerResume(t) ELSE t)

media_play_pause(i, pause) == WriteTimer(i, PlayPause(timerObj[timer[i]], pause))

media_restart(i) == WriteTimer(i, TimerStart(TimerReset(timerObj[timer[i]])))

media_stop(i) == WriteTimer(i, TimerReset(timerObj[timer[i]]))

media_next(i) == WriteTimer(i, TimerSplit(timerObj[timer[i]]))

media_previous(i) == WriteTimer(i, TimerUndoSplit(timerObj[timer[i]]))

\* media_restart statement by statement: let mut timer = ..write().unwrap()
media_restart_lock(i) ==
    /\ pc[i] = "active"
    /\ ctl[i] = "idle"
    /\ Unlocked(timer[i])
    /\ rwlock' = [rwlock EXCEPT ![timer[i]] = i]
    /\ ctl' = [ctl EXCEPT ![i] = "restart_reset"]
    /\ UNCHANGED <<autoSplitting, layout, seen, registryVars, timerObj, pc,
                   stateVars, localVars, hostVars>>

\* timer.reset(true)
media_restart_reset(i) ==
    /\ ctl[i] = "restart_reset"
    /\ timerObj' = [timerObj EXCEPT ![timer[i]] = TimerReset(@)]
    /\ ctl' = [ctl EXCEPT ![i] = "restart_start"]
    /\ UNCHANGED <<autoSplitting, layout, rwlock, seen, registryVars, pc,
                   stateVars, localVars, hostVars>>

\* timer.start(); the guard is dropped
media_restart_start(i) ==
    /\ ctl[i] = "restart_start"
    /\ timerObj' = [timerObj EXCEPT ![timer[i]] = TimerStart(@)]
    /\ rwlock' = [rwlock EXCEPT ![timer[i]] = NoThread]
    /\ ctl' = [ctl EXCEPT ![i] = "idle"]
    /\ UNCHANGED <<autoSplitting, layout, seen, registryVars, pc,
                   stateVars, localVars, hostVars>>

\* the value media_get_state returns
media_get_state(i) ==
    LET phase == timerObj[timer[i]].phase
    IN  IF phase = "NotRunning" THEN "OBS_MEDIA_STATE_STOPPED"
        ELSE IF phase = "Running" THEN "OBS_MEDIA_STATE_PLAYING"
        ELSE IF phase = "Ended" THEN "OBS_MEDIA_STATE_ENDED"
        ELSE IF phase = "Paused" THEN "OBS_MEDIA_STATE_PAUSED"
        ELSE "freed"

\* the host asks for the media state: state.timer.read().unwrap()
media_get_state_call(i) ==
    /\ pc[i] \in Alive
    /\ Unlocked(timer[i])
    /\ seen' = [seen EXCEPT ![i] = media_get_state(i)]
    /\ UNCHANGED <<autoSplitting, layout, rwlock, ctl, registryVars, timerObj,
                   pc, stateVars, localVars, hostVars>>

\* ---------------------------------------------------------- save_splits
\* A save that does not look at can_save_splits.
save_splits_Unchecked(i, created) ==
    /\ pc[i] \in Alive
    /\ IF created
       THEN disk' = [disk EXCEPT ![splits_path[i]] = "saved"]
       ELSE UNCHANGED disk
    /\ UNCHANGED <<autoSplitting, layout, controlVars, registryVars, timerObj, pc, stateVars,
                   localVars, textures, graphics, frame>>

\* File::create may fail; the Timer is only read.
save_splits(i, created) ==
    /\ pc[i] \in Alive
    /\ can_save_splits[i] => Unlocked(timer[i])
    /\ IF can_save_splits[i] /\ created
       THEN disk' = [disk EXCEPT ![splits_path[i]] = "saved"]
       ELSE UNCHANGED disk
    /\ UNCHANGED <<autoSplitting, layout, controlVars, registryVars, timerObj, pc, stateVars,
                   localVars, textures, graphics, frame>>

\* ---------------------------------------------------------- video_render
\* State::update: the layout state is updated from a snapshot of the Timer
\* taken under a read guard; the renderer fills a buffer of width x height,
\* which gs_texture_set_image copies into state.texture.  The host calls
\* video_render inside its graphics context.
Upload(i) == [buffer |-> <<width[i], height[i]>>, target |-> textures[texture[i]],
              snapshot |-> timerObj[timer[i]]]

\* A render step that starts a timer that is not running.
video_render_Starts(i) ==
    /\ pc[i] \in Alive
    /\ Unlocked(timer[i])
    /\ graphics = NoThread
    /\ frame' = [frame EXCEPT ![i] = Upload(i)]
    /\ timerObj' = [timerObj EXCEPT ![timer[i]] = TimerStart(@)]
    /\ UNCHANGED <<autoSplitting, layout, controlVars, registryVars, pc, stateVars,
                   localVars, textures, graphics, disk>>

video_render(i) ==
    /\ pc[i] \in Alive
    /\ Unlocked(timer[i])
    /\ graphics = NoThread
    /\ frame' = [frame EXCEPT ![i] = Upload(i)]
    /\ UNCHANGED <<autoSplitting, layout, controlVars, registryVars, timerObj, pc, stateVars,
                   localVars, textures, graphics, disk>>

\* ----------------------------------------------------------- mouse_wheel
\* Layout::scroll_down and Layout::scroll_up move the scroll offset of the
\* layout's splits component by one row.
scroll_down(l) == l + 1
scroll_up(l) == l - 1

\* y_delta of the host's wheel events
Deltas == {-120, -1, 0, 1, 120}

\* A wheel handler with the two directions exchanged.
mouse_wheel_Inverted(i, y_delta) ==
    /\ pc[i] \in Alive
    /\ layout' = [layout EXCEPT ![i] = IF y_delta < 0 THEN scroll_up(@)
                                       ELSE IF y_delta = 0 THEN @
                                       ELSE scroll_down(@)]
    /\ layout'[i] \in -MaxScroll..MaxScroll
    /\ UNCHANGED <<autoSplitting, controlVars, registryVars, timerObj, pc,
                   stateVars, localVars, hostVars>>

\* match y_delta.cmp(&0)
mouse_wheel(i, y_delta) ==
    /\ pc[i] \in Alive
    /\ layout' = [layout EXCEPT ![i] = IF y_delta < 0 THEN scroll_down(@)
                                       ELSE IF y_delta = 0 THEN @
                                       ELSE scroll_up(@)]
    /\ layout'[i] \in -MaxScroll..MaxScroll
    /\ UNCHANGED <<autoSplitting, controlVars, registryVars, timerObj, pc,
                   stateVars, localVars, hostVars>>

\* ----------------------------------------------------------------- spec
Init ==
    /\ autoSplitting \in BOOLEAN
    /\ TIMERS = <<>>
    /\ lockHolder = NoThread
    /\ poisoned = FALSE
    /\ timerObj = [t \in TimerIds |-> Freed]
    /\ pc = [i \in Inst |-> "uninit"]
    /\ timer = [i \in Inst |-> NoTimer]
    /\ splits_path = [i \in Inst |-> ""]
    /\ can_save_splits = [i \in Inst |-> FALSE]
    /\ auto_splitter = [i \in Inst |-> NoTimer]
    /\ texture = [i \in Inst |-> NoTexture]
    /\ width = [i \in Inst |-> 0]
    /\ height = [i \in Inst |-> 0]
    /\ settings = [i \in Inst |-> NoSettings]
    /\ newTimer = [i \in Inst |-> NoTimer]
    /\ newTexture = [i \in Inst |-> NoTexture]
    /\ textures = [h \in TexIds |-> NoDims]
    /\ graphics = NoThread
    /\ frame = [i \in Inst |-> NoFrame]
    /\ disk = [p \in Paths |-> "orig"]
    /\ layout = [i \in Inst |-> 0]
    /\ rwlock = [t \in TimerIds |-> NoThread]
    /\ ctl = [i \in Inst |-> "idle"]
    /\ seen = [i \in Inst |-> ""]

\* The callbacks of the instances I, configured with splits paths P holding
\* files F and with sizes W x H: create,
Creation(I, P, F, W, H) ==
    \E i \in I :
        \/ \E p \in P, f \in F, w \in W, h \in H : create(i, p, f, w, h)
        \/ new_lock(i)
        \/ new_find(i)
        \/ new_store(i)
        \/ new_finish(i)

\* update up to the size test,
Reconfigure(I, P, F, W, H) ==
    \E i \in I :
        \/ \E p \in P, f \in F, w \in W, h \in H : update(i, p, f, w, h)
        \/ upd_lock(i)
        \/ upd_find(i)
        \/ upd_store(i)
        \/ upd_path(i)
        \/ upd_flag(i)
        \/ upd_timer(i)
        \/ upd_size(i)

\* and destroy.
Teardown(I) ==
    \E i \in I :
        \/ destroy(i)
        \/ destroy_drop(i)

Lifecycle(I, P, F, W, H) ==
    \/ Creation(I, P, F, W, H)
    \/ Reconfigure(I, P, F, W, H)
    \/ Teardown(I)

\* The steps of an update that changes the size.
Resize(I) ==
    \E i \in I :
        \/ upd_create(i)
        \/ upd_swap(i)
        \/ upd_destroy(i)

Controls(I) ==
    \E i \in I :
        \/ \E pressed \in BOOLEAN : split(i, pressed)
        \/ \E pause \in BOOLEAN : media_play_pause(i, pause)
        \/ media_restart(i)
        \/ media_stop(i)
        \/ media_next(i)
        \/ media_previous(i)

\* Files that parse_run turns into the default run, and files of one format.
NoRunFiles == {f \in Files : ~parse_run(f).some}
FilesOf(kind) == {f \in Files : f.kind = kind}

\* Sharing: every instance and path, the timers driven by the controls;
\* one size and LiveSplit files of one segment.
Next ==
    \/ Lifecycle(Inst, Paths, {f \in FilesOf("LiveSplit") : f.segs = 1},
                 {DefaultWidth}, {DefaultHeight})
    \/ Controls(Inst)

Spec == Init /\ [][Next]_vars

\* The registry: every instance and path, files without a run and files of
\* another format; one size, timers at rest.
NextRegistry ==
    Lifecycle(Inst, Paths, NoRunFiles \cup FilesOf("Other"),
              {DefaultWidth}, {DefaultHeight})

SpecRegistry == Init /\ [][NextRegistry]_vars

\* Rendering and resizing: one instance, every path and size, the split
\* hotkey.
NextRender ==
    \/ Lifecycle({1}, Paths, {f \in FilesOf("LiveSplit") : f.segs = 1},
                 Widths, Heights)
    \/ Resize({1})
    \/ video_render(1)
    \/ \E pressed \in BOOLEAN : split(1, pressed)

SpecRender == Init /\ [][NextRender]_vars

\* Controls and saving: one instance, every path and file, one size.
NextControl ==
    \/ Lifecycle({1}, Paths, Files, {DefaultWidth}, {DefaultHeight})
    \/ Controls({1})
    \/ \E created \in BOOLEAN : save_splits(1, created)

SpecControl == Init /\ [][NextControl]_vars

\* Scrolling: every instance and path created and destroyed, the wheel and
\* the split hotkey.
NextScroll ==
    \/ Creation(Inst, Paths, {f \in FilesOf("LiveSplit") : f.segs = 1},
                {DefaultWidth}, {DefaultHeight})
    \/ Teardown(Inst)
    \/ \E i \in Inst, y_delta \in Deltas : mouse_wheel(i, y_delta)
    \/ \E i \in Inst, pressed \in BOOLEAN : split(i, pressed)

SpecScroll == Init /\ [][NextScroll]_vars

\* The callbacks that read a Timer.
Readers(I) ==
    \E i \in I :
        \/ media_get_state_call(i)
        \/ video_render(i)

\* media_restart followed statement by statement.
Restart(I) ==
    \E i \in I :
        \/ media_restart_lock(i)
        \/ media_restart_reset(i)
        \/ media_restart_start(i)

\* Locking of a shared Timer: every instance on one path, created and
\* destroyed; restart step by step, split and play/pause, the readers.  The
\* host does not destroy a source while one of its callbacks is running.
NextLock ==
    \/ Creation(Inst, {"A"}, {f \in FilesOf("LiveSplit") : f.segs = 1},
                {DefaultWidth}, {DefaultHeight})
    \/ \E i \in Inst : ctl[i] = "idle" /\ Teardown({i})
    \/ Restart(Inst)
    \/ \E i \in Inst, pressed \in BOOLEAN : split(i, pressed)
    \/ \E i \in Inst, pause \in BOOLEAN : media_play_pause(i, pause)
    \/ Readers(Inst)

SpecLock == Init /\ [][NextLock]_vars

\* Render targets: every instance on one path, two widths.
NextTargets ==
    \/ Lifecycle(Inst, {"A"}, {f \in FilesOf("LiveSplit") : f.segs = 1},
                 Widths, {DefaultHeight})
    \/ Resize(Inst)

SpecTargets == Init /\ [][NextTargets]_vars

\* Progress: every instance on one path, created, updated, resized and
\* destroyed, with restart step by step.  The host starts no lifecycle
\* callback of a source while one of its control callbacks is running.
NextLive ==
    \/ \E i \in Inst :
          /\ ctl[i] = "idle"
          /\ Lifecycle({i}, {"A"}, {f \in FilesOf("LiveSplit") : f.segs = 1},
                       Widths, {DefaultHeight})
    \/ Resize(Inst)
    \/ Restart(Inst)

\* The steps of instance i's lifecycle thread that wait for the TIMERS mutex
\* or for the graphics context, its other steps inside a callback, and the
\* steps of its control thread inside media_restart.
Acquiring(i) == new_lock(i) \/ upd_lock(i) \/ new_finish(i) \/ upd_create(i)
Running(i) ==
    \/ new_find(i) \/ new_store(i)
    \/ upd_find(i) \/ upd_store(i) \/ upd_path(i) \/ upd_flag(i)
    \/ upd_timer(i) \/ upd_size(i) \/ upd_swap(i) \/ upd_destroy(i)
    \/ destroy_drop(i)
Restarting(i) == media_restart_reset(i) \/ media_restart_start(i)

\* A thread inside a callback keeps running, and a thread that waits for
\* the TIMERS mutex or for the graphics context gets it if it is free again
\* and again.  Nothing obliges the host to start a callback.
Fairness ==
    \A i \in Inst :
        /\ SF_vars(Acquiring(i))
        /\ WF_vars(Running(i))
        /\ WF_vars(Restarting(i))

SpecLive == Init /\ [][NextLive]_vars /\ Fairness

\* The hotkey callbacks of the instances I: key presses and key releases.
Hotkeys(I) ==
    \E i \in I, pressed \in BOOLEAN :
        \/ split(i, pressed)
        \/ reset(i, pressed)
        \/ undo(i, pressed)
        \/ skip(i, pressed)
        \/ pause_hotkey(i, pressed)
        \/ undo_all_pauses(i, pressed)
        \/ previous_comparison(i, pressed)
        \/ next_comparison(i, pressed)
        \/ toggle_timing_method(i, pressed)

\* Hotkeys: every instance on one path with the longest run, created and
\* destroyed; the nine hotkeys, and restart step by step so that a Timer's
\* write guard can be held when a key event arrives.
NextHotkeys ==
    \/ Creation(Inst, {"A"}, {f \in FilesOf("LiveSplit") : f.segs = MaxSegs},
                {DefaultWidth}, {DefaultHeight})
    \/ \E i \in Inst : ctl[i] = "idle" /\ Teardown({i})
    \/ Restart(Inst)
    \/ Hotkeys(Inst)

SpecHotkeys == Init /\ [][NextHotkeys]_vars

\* ================================================================ claims
Live(t) == strong_count(t) > 0

\* Registry entries recorded under path p.
EntriesOf(p) == {k \in 1..Len(TIMERS) : TIMERS[k].path = p}

\* The identity a Timer object was registered under.
IdentityOf(t) == {TIMERS[k].path : k \in {n \in 1..Len(TIMERS) : TIMERS[n].timer = t}}

AtRest == \A i \in Inst : pc[i] \in {"uninit", "active", "destroyed"}

\* C1: at most one live Timer exists per splits identity: no two registry
\* entries of one path both refer to a live Timer, every live Timer has its
\* entry, and the Timer a resolve returned is registered under the path the
\* resolve asked for.
C1_OneLiveTimerPerIdentity ==
    /\ \A k, l \in 1..Len(TIMERS) :
          (k # l /\ TIMERS[k].path = TIMERS[l].path)
              => ~(Live(TIMERS[k].timer) /\ Live(TIMERS[l].timer))
    /\ \A t \in TimerIds : Live(t) => Cardinality(IdentityOf(t)) = 1
    /\ \A i \in Inst :
          newTimer[i] # NoTimer => IdentityOf(newTimer[i]) = {settings[i].splits_path}

\* Two instances have resolved the same path and hold one live Timer.
C1_Witness ==
    \E i, j \in Inst :
        /\ i # j
        /\ pc[i] = "active"
        /\ pc[j] = "upd_path"
        /\ settings[j].splits_path = splits_path[i]
        /\ newTimer[j] = timer[i]

\* C2: when two creates have resolved the same path concurrently (both are
\* past the registry block, neither has finished), one Timer was constructed
\* and entered once, and both hold it.
C2_ConcurrentCreateShares ==
    \A i, j \in Inst :
        (/\ i # j
         /\ pc[i] = "new_finish"
         /\ pc[j] = "new_finish"
         /\ settings[i].splits_path = settings[j].splits_path)
        => /\ newTimer[i] = newTimer[j]
           /\ newTimer[i] # NoTimer
           /\ Cardinality(EntriesOf(settings[i].splits_path)) = 1

\* Both creates of one path are past the registry block.
C2_Witness ==
    \E i, j \in Inst :
        /\ i # j
        /\ pc[i] = "new_finish"
        /\ pc[j] = "new_finish"
        /\ settings[i].splits_path = settings[j].splits_path
        /\ newTimer[i] = newTimer[j]

\* C3: two active instances with equal splits paths hold the same Timer, so
\* media_get_state reports through either the phase the other's control
\* actions left.
C3_SamePathSameTimer ==
    \A i, j \in Inst :
        (pc[i] = "active" /\ pc[j] = "active" /\ splits_path[i] = splits_path[j])
        => /\ timer[i] = timer[j]
           /\ media_get_state(i) = media_get_state(j)

\* Two active instances of one path report a phase a control action set.
C3_Witness ==
    \E i, j \in Inst :
        /\ i # j
        /\ pc[i] = "active"
        /\ pc[j] = "active"
        /\ splits_path[i] = splits_path[j]
        /\ media_get_state(j) = "OBS_MEDIA_STATE_PAUSED"

\* No owner is left of any Timer registered under path p.
NoOwner(p) == \A k \in EntriesOf(p) : ~Live(TIMERS[k].timer)

\* C4: when a create looks up a path of which no Timer has an owner left,
\* the lookup misses, and the Timer it then constructs is in phase NotRunning
\* without recorded splits and is none of the objects the registry refers to.
C4_FreshAfterAllDestroyed ==
    [][\A i \in Inst :
          /\ (/\ pc[i] = "new_find"
              /\ pc'[i] # "new_find"
              /\ NoOwner(settings[i].splits_path))
             => (pc'[i] = "new_store" /\ newTimer'[i] = NoTimer)
          /\ (pc[i] = "new_store" /\ pc'[i] = "new_finish")
             => /\ timerObj'[newTimer'[i]].phase = "NotRunning"
                /\ timerObj'[newTimer'[i]].index = 0
                /\ \A k \in 1..Len(TIMERS) : TIMERS[k].timer # newTimer'[i]
                /\ Len(TIMERS') = Len(TIMERS) + 1]_vars

\* A create has resolved a path while the registry still holds the entry of
\* a dead Timer of that path.
C4_Witness ==
    \E i \in Inst :
        /\ pc[i] = "new_finish"
        /\ \E k \in EntriesOf(settings[i].splits_path) :
              /\ TIMERS[k].timer # newTimer[i]
              /\ ~Live(TIMERS[k].timer)
        /\ timerObj[newTimer[i]].phase = "NotRunning"

\* C5: with no callback in flight, a Timer is live exactly when an instance
\* holds it as its current timer.
C5_LiveIffCurrentTimer ==
    AtRest =>
        \A t \in TimerIds :
            Live(t) <=> \E i \in Inst : pc[i] = "active" /\ timer[i] = t

\* C6: the buffer a render uploads has the dimensions of the target it is
\* uploaded into.
C6_UploadMatchesTarget ==
    \A i \in Inst : frame[i] # NoFrame => frame[i].buffer = frame[i].target

\* C7: the render target an instance holds is live throughout its life, and
\* during a resize the target replaced is destroyed only after the swap.
C7_TextureAlwaysLive ==
    \A i \in Inst :
        /\ pc[i] \in Alive => (texture[i] # NoTexture /\ textures[texture[i]] # NoDims)
        /\ pc[i] = "upd_destroy" =>
              /\ newTexture[i] # texture[i]
              /\ textures[newTexture[i]] # NoDims
              /\ textures[texture[i]] = <<width[i], height[i]>>

\* A resize has swapped the new target in, the old one is not yet destroyed.
C7_Witness ==
    \E i \in Inst :
        /\ pc[i] = "upd_destroy"
        /\ textures[newTexture[i]] # textures[texture[i]]

\* C9: media_play_pause starts a NotRunning timer on play, pauses a Running
\* one on pause, resumes a Paused one on play, and changes nothing otherwise.
C9_PlayPauseTable ==
    [][\A i \in Inst, pause \in BOOLEAN :
          media_play_pause(i, pause) =>
              LET old == timerObj[timer[i]]
                  new == timerObj'[timer[i]]
              IN  IF old.phase = "NotRunning" /\ ~pause
                      THEN new = [old EXCEPT !.phase = "Running"]
                  ELSE IF old.phase = "Running" /\ pause
                      THEN new = [old EXCEPT !.phase = "Paused"]
                  ELSE IF old.phase = "Paused" /\ ~pause
                      THEN new = [old EXCEPT !.phase = "Running"]
                  ELSE new = old]_vars

\* A timer paused after its first split.
C9_Witness ==
    \E i \in Inst :
        /\ pc[i] = "active"
        /\ timerObj[timer[i]].phase = "Paused"
        /\ timerObj[timer[i]].index > 0

\* C10: only save_splits writes a splits file, and every write goes to the
\* current splits path of an instance whose can_save_splits is set and
\* leaves the Timer objects as they were.
C10_SaveOnlyWhenAllowed ==
    [][disk' # disk =>
          /\ timerObj' = timerObj
          /\ \E i \in Inst :
                /\ pc[i] \in Alive
                /\ can_save_splits[i]
                /\ disk' = [disk EXCEPT ![splits_path[i]] = "saved"]]_vars

\* The splits file of an instance that can save was written.
C10_Witness ==
    \E i \in Inst :
        /\ pc[i] = "active"
        /\ can_save_splits[i]
        /\ disk[splits_path[i]] = "saved"
        /\ timerObj[timer[i]].phase = "Ended"

\* C11: a wheel event with a negative delta scrolls the layout of its own
\* instance down by one row, a positive delta scrolls it up by one row and a
\* zero delta leaves it alone; whatever the delta, every Timer, the registry,
\* the timer each instance holds and every other instance's layout stay as
\* they were.
C11_WheelScrollsOwnLayout ==
    [][\A i \in Inst, d \in Deltas :
          mouse_wheel(i, d) =>
             /\ d < 0 => layout'[i] = layout[i] + 1
             /\ d > 0 => layout'[i] = layout[i] - 1
             /\ d = 0 => layout'[i] = layout[i]
             /\ \A j \in Inst \ {i} : layout'[j] = layout[j]
             /\ timerObj' = timerObj
             /\ TIMERS' = TIMERS
             /\ timer' = timer]_vars

\* Two instances share a running timer; one is scrolled down, the other up.
C11_Witness ==
    /\ pc[1] = "active" /\ pc[2] = "active"
    /\ timer[1] = timer[2]
    /\ timerObj[timer[1]].phase = "Running"
    /\ layout[1] = 1 /\ layout[2] = -1

\* The configuration s names the size, and the path and the size, the
\* instance i has now.
SameSize(i, s) == s.width = width[i] /\ s.height = height[i]
SameConfig(i, s) == s.splits_path = splits_path[i] /\ SameSize(i, s)

\* The update of instance i that takes the next step was given the
\* instance's current configuration: up to the lookup the parsed path and
\* size are the instance's, after it the resolved timer is the instance's,
\* and up to the size test the parsed size is the instance's.
SameConfigStep(i) ==
    IF pc[i] = "active" THEN SameConfig(i, settings'[i])
    ELSE IF pc[i] \in {"upd_lock", "upd_find", "upd_store"}
         THEN SameConfig(i, settings[i])
    ELSE IF pc[i] \in {"upd_path", "upd_flag", "upd_timer"}
         THEN newTimer[i] = timer[i] /\ SameSize(i, settings[i])
    ELSE pc[i] = "upd_size" /\ SameSize(i, settings[i])

\* C12: every step of an update whose configuration is the instance's
\* current one keeps the Timer the instance holds, with its phase and its
\* splits, keeps the render-target handle, the width and the height, creates
\* and destroys no render target and never enters the steps that build a
\* timer or replace the render target; the lookup resolves the Timer the
\* instance holds.
C12_SameConfigKeepsEverything ==
    [][\A i \in Inst :
          (/\ pc[i] \in Alive
           /\ pc'[i] \in Alive
           /\ pc'[i] # pc[i]
           /\ SameConfigStep(i))
          => /\ timer'[i] = timer[i]
             /\ timerObj'[timer[i]] = timerObj[timer[i]]
             /\ pc'[i] = "upd_path" => newTimer'[i] = timer[i]
             /\ texture'[i] = texture[i]
             /\ textures' = textures
             /\ width'[i] = width[i]
             /\ height'[i] = height[i]
             /\ pc'[i] \notin {"upd_store", "upd_create", "upd_swap",
                               "upd_destroy"}]_vars

\* An update with the current configuration has reached its lookup while
\* the timer has ended and the size is not the default one.
C12_Witness ==
    \E i \in Inst :
        /\ pc[i] = "upd_find"
        /\ SameConfig(i, settings[i])
        /\ timerObj[timer[i]].phase = "Ended"
        /\ width[i] # DefaultWidth

\* The instances whose control thread is inside media_restart on timer t.
RestartingOn(t) == {i \in Inst : ctl[i] # "idle" /\ timer[i] = t}

\* C13: a control action holds the write guard of its Timer from its first
\* statement to its last: the guard is held by exactly the instance inside
\* media_restart; while it is held no other thread's step changes that
\* Timer, so actions of instances sharing it take effect one after another;
\* and every media query and Render Step that delivers a new observation
\* reads a Timer no control action is inside, so none sees the NotRunning
\* phase between the reset and the start of a restart.
C13_WriteGuardExcludes ==
    /\ [](\A t \in TimerIds :
             /\ Cardinality(RestartingOn(t)) <= 1
             /\ rwlock[t] # NoThread <=> RestartingOn(t) = {rwlock[t]})
    /\ [][\A i \in Inst :
             ctl[i] # "idle" /\ ctl'[i] = ctl[i]
                => timerObj'[timer[i]] = timerObj[timer[i]]]_vars
    /\ [][\A j \in Inst :
             (seen'[j] # seen[j] \/ (frame'[j] # frame[j] /\ pc'[j] \in Alive))
                => RestartingOn(timer[j]) = {}]_vars

\* Instance 1 is between the reset and the start of a restart of the timer
\* it shares with instance 2, whose host last saw the timer playing and
\* whose last frame showed it running.
C13_Witness ==
    /\ ctl[1] = "restart_start"
    /\ pc[2] = "active"
    /\ timer[1] = timer[2]
    /\ timerObj[timer[1]].phase = "NotRunning"
    /\ seen[2] = "OBS_MEDIA_STATE_PLAYING"
    /\ frame[2].snapshot.phase = "Running"

\* The positions of a lifecycle thread inside the block that holds the
\* TIMERS guard, after the prune: before the lookup and before the insert.
Critical == {"new_find", "new_store", "upd_find", "upd_store"}

\* Instance i's thread takes a step that reads a file: parse_settings at
\* the start of create and update, or the load of the auto-splitter script
\* after the block.
ReadsFile(i) ==
    \/ pc[i] \in {"uninit", "active"} /\ pc'[i] \in {"new_lock", "upd_lock"}
    \/ pc[i] = "new_finish" /\ pc'[i] = "active"
    \/ pc[i] = "upd_timer" /\ pc'[i] = "upd_size"

\* C14: a thread holds the registry lock exactly from the prune to the end
\* of the lookup or, on a miss, of the insert; the registry changes only in
\* steps of the thread that holds or takes the lock; and no step that reads
\* a file is taken by a thread holding the lock: settings are parsed before
\* the lock is taken and the script is loaded after it is released.
C14_LockCoversResolveOnly ==
    /\ [](\A i \in Inst : lockHolder = i <=> pc[i] \in Critical)
    /\ [][TIMERS' # TIMERS
             => \E i \in Inst : /\ pc'[i] # pc[i]
                                /\ lockHolder = i \/ lockHolder' = i]_vars
    /\ [][\A i \in Inst :
             ReadsFile(i) => lockHolder # i /\ lockHolder' # i]_vars

\* One thread is about to insert after a miss, holding the lock, while the
\* other has parsed its settings and waits for the lock.
C14_Witness ==
    \E i, j \in Inst :
        /\ pc[i] = "upd_store"
        /\ lockHolder = i
        /\ pc[j] = "new_lock"
        /\ settings[j].splits_path = settings[i].splits_path

\* C15: an update of one instance leaves the other Active instance alone:
\* through every step of the update the other instance holds the Timer it
\* held, and that Timer stays live with its phase and splits; this holds in
\* particular when the update moves its instance off the path whose Timer
\* the other instance holds.  Once the update is over, the Timer the updated
\* instance holds is the live Timer registered under its new path.
C15_UpdateLeavesSharedTimer ==
    /\ [](\A i \in Inst :
             pc[i] = "active"
                => /\ timerObj[timer[i]] # Freed
                   /\ IdentityOf(timer[i]) = {splits_path[i]})
    /\ [][\A i, j \in Inst :
             (/\ i # j
              /\ pc[i] \in Alive /\ pc'[i] \in Alive /\ pc'[i] # pc[i]
              /\ pc[j] = "active")
             => /\ timer'[j] = timer[j]
                /\ timerObj'[timer[j]] = timerObj[timer[j]]]_vars

\* Instance i, updated from the path of instance j to another path, is
\* about to replace the paused Timer it shares with j by the Timer of the
\* new path.
C15_Witness ==
    \E i, j \in Inst :
        /\ i # j
        /\ pc[i] = "upd_timer"
        /\ pc[j] = "active"
        /\ timer[i] = timer[j]
        /\ newTimer[i] # timer[i]
        /\ splits_path[i] # splits_path[j]
        /\ timerObj[timer[j]].phase = "Paused"

\* C16: a Render Step only reads: the step that delivers a frame of an
\* instance shows the snapshot of the Timer the instance holds and changes
\* no Timer and no write guard.
C16_RenderOnlyReads ==
    [][\A i \in Inst :
          (frame'[i] # frame[i] /\ pc'[i] \in Alive)
             => /\ frame'[i].snapshot = timerObj[timer[i]]
                /\ timerObj' = timerObj
                /\ rwlock' = rwlock]_vars

\* Two instances share a running timer; the last frame of one shows it
\* paused, the last frame of the other shows it running.
C16_Witness ==
    /\ pc[1] = "active" /\ pc[2] = "active"
    /\ timer[1] = timer[2]
    /\ timerObj[timer[1]].phase = "Running"
    /\ frame[1].snapshot.phase = "Paused"
    /\ frame[2].snapshot.phase = "Running"

\* The splits file is missing, is not a splits file, or holds an empty run.
Unusable(f) == f.kind \in {"missing", "garbage"} \/ f.segs = 0

\* C17: a create or update that finds an unusable splits file goes on to
\* the registry with a run of exactly one segment under the configured path
\* and with the can-save flag false; the Timer a miss constructs has the
\* offered run, the instance's flag is the parsed one, and no create or
\* update ever panics.
C17_UnusableFileGivesDefaultRun ==
    /\ [](~poisoned /\ \A i \in Inst : pc[i] # "panicked")
    /\ [][\A i \in Inst, p \in Paths, f \in Files :
             LET w == DefaultWidth  h == DefaultHeight IN
             (Unusable(f) /\ (create(i, p, f, w, h) \/ update(i, p, f, w, h)))
                => /\ settings'[i].run = 1
                   /\ settings'[i].can_save_splits = FALSE
                   /\ settings'[i].splits_path = p
                   /\ pc'[i] \in {"new_lock", "upd_lock"}]_vars
    /\ [][\A i \in Inst :
             /\ (pc[i] \in {"new_store", "upd_store"} /\ pc'[i] # pc[i])
                   => timerObj'[newTimer'[i]].segs = settings[i].run
             /\ (\/ pc[i] = "new_finish" /\ pc'[i] = "active"
                 \/ pc[i] = "upd_flag" /\ pc'[i] = "upd_timer")
                   => can_save_splits'[i] = settings[i].can_save_splits]_vars

\* After an update the instance is Active on a one-segment run it cannot
\* save, its earlier file still untouched on disk.
C17_Witness ==
    \E i \in Inst :
        /\ pc[i] = "active"
        /\ can_save_splits[i] = FALSE
        /\ timerObj[timer[i]].segs = 1
        /\ timerObj[timer[i]].phase = "Running"
        /\ \E k \in 1..Len(TIMERS) : TIMERS[k].path # splits_path[i]

\* The references to render target h: the texture field of a State that
\* exists, and the local of an update between its create and its destroy.
HoldersOf(h) ==
    {<<i, "state">> : i \in {k \in Inst : pc[k] \in Alive /\ texture[k] = h}}
    \cup {<<i, "local">> : i \in {k \in Inst : /\ pc[k] \in {"upd_swap", "upd_destroy"}
                                               /\ newTexture[k] = h}}

\* The render targets the step releases.
Released == {h \in TexIds : textures[h] # NoDims /\ textures'[h] = NoDims}

\* C18: every render target is released exactly once: a target is allocated
\* exactly while one reference to it exists, so none outlives its instance
\* and none is shared; a step releases at most one target, and that target
\* is the current one of the instance being destroyed or the one a resize
\* has just replaced, of the old size; and every release is given a target
\* that is still allocated.
C18_TargetsReleasedOnce ==
    /\ [](\A h \in TexIds :
             IF textures[h] = NoDims THEN HoldersOf(h) = {}
             ELSE Cardinality(HoldersOf(h)) = 1)
    /\ [][/\ Cardinality(Released) <= 1
          /\ \A h \in Released :
                \E i \in Inst :
                   \/ /\ pc[i] = "active" /\ pc'[i] = "dropping"
                      /\ h = texture[i]
                   \/ /\ pc[i] = "upd_destroy" /\ pc'[i] = "active"
                      /\ h = newTexture[i]
                      /\ h # texture'[i]
                      /\ textures[h] # <<width[i], height[i]>>
                      /\ textures'[texture'[i]] = <<width[i], height[i]>>]_vars
    /\ [][\A i \in Inst :
             /\ (pc[i] = "active" /\ pc'[i] = "dropping")
                   => texture[i] \in Released
             /\ (pc[i] = "upd_destroy" /\ pc'[i] = "active")
                   => newTexture[i] \in Released]_vars

\* One instance has been destroyed and no target is left of it, while the
\* other is in a resize with its old and its new target allocated.
C18_Witness ==
    \E i, j \in Inst :
        /\ pc[i] = "destroyed"
        /\ pc[j] = "upd_destroy"
        /\ Cardinality({h \in TexIds : textures[h] # NoDims}) = 2
        /\ textures[texture[j]] # textures[newTexture[j]]

\* C19: an update that names the path its instance already has finds the
\* Timer the instance holds and never constructs one, whatever run it has
\* parsed; the steps that follow assign that same Timer, and through all of
\* them every Timer keeps its phase, its splits and its run: the parsed run
\* is not used.
C19_SamePathKeepsTimer ==
    /\ [][\A i \in Inst :
             (/\ pc[i] = "upd_find" /\ pc'[i] # pc[i]
              /\ settings[i].splits_path = splits_path[i])
             => /\ pc'[i] = "upd_path"
                /\ newTimer'[i] = timer[i]
                /\ timerObj' = timerObj]_vars
    /\ [][\A i \in Inst :
             (/\ pc[i] \in {"upd_path", "upd_flag", "upd_timer"} /\ pc'[i] # pc[i]
              /\ newTimer[i] = timer[i])
             => /\ timer'[i] = timer[i]
                /\ newTimer'[i] \in {timer[i], NoTimer}
                /\ timerObj' = timerObj]_vars

\* An update with the instance's path has parsed a run of another length
\* than the run of the instance's Timer, which is running with one split
\* recorded, and is about to look the path up.
C19_Witness ==
    \E i \in Inst :
        /\ pc[i] = "upd_find"
        /\ settings[i].splits_path = splits_path[i]
        /\ settings[i].run # timerObj[timer[i]].segs
        /\ timerObj[timer[i]].phase = "Running"
        /\ timerObj[timer[i]].index = 1

\* Positions at which a lifecycle thread is in no callback.
Returned == {"uninit", "active", "destroyed"}

\* C20: the registry lock and the graphics context are held only by a
\* lifecycle thread inside its callback, and a Timer guard only by a thread
\* inside a restart; no thread holds the registry lock together with a
\* Timer guard or with the graphics context, a thread that waits for the
\* registry lock or for the graphics context holds no lock, and a thread
\* inside a restart holds nothing but its Timer guard.  With threads that
\* keep running, every create, update and destroy that has started returns
\* and every restart finishes, so that each lock is given up again and a
\* control action, a media query, a save or a Render Step waiting for it
\* gets it.
C20_NoLockNestingAndProgress ==
    /\ [](\A i \in Inst :
             /\ lockHolder = i => pc[i] \in Critical /\ graphics # i /\ ctl[i] = "idle"
             /\ graphics = i => pc[i] \in {"upd_swap", "upd_destroy"} /\ ctl[i] = "idle"
             /\ pc[i] \in {"new_lock", "upd_lock", "new_finish", "upd_create"}
                   => lockHolder # i /\ graphics # i /\ ctl[i] = "idle"
             /\ \A t \in TimerIds :
                   rwlock[t] = i => ctl[i] # "idle" /\ pc[i] = "active")
    /\ \A i \in Inst :
          /\ (pc[i] \notin Returned) ~> (pc[i] \in Returned)
          /\ (ctl[i] # "idle") ~> (ctl[i] = "idle")

\* A lifecycle thread holds the registry lock while the thread of the other
\* instance, which shares the Timer, is between the reset and the start of a
\* restart and holds the Timer's guard.
C20_Witness ==
    \E i, j \in Inst :
        /\ pc[j] = "upd_find" /\ lockHolder = j
        /\ ctl[i] = "restart_start" /\ rwlock[timer[i]] = i
        /\ timer[i] = timer[j]

\* A call of one of the nine hotkey handlers of instance i.
HotkeyCall(i, pressed) ==
    \/ split(i, pressed)
    \/ reset(i, pressed)
    \/ undo(i, pressed)
    \/ skip(i, pressed)
    \/ pause_hotkey(i, pressed)
    \/ undo_all_pauses(i, pressed)
    \/ previous_comparison(i, pressed)
    \/ next_comparison(i, pressed)
    \/ toggle_timing_method(i, pressed)

\* C21: a call of any of the nine hotkey handlers with pressed = false
\* changes nothing: no Timer, no write guard, no field of any instance; and
\* it takes no lock: each of the nine can be called with pressed = false for
\* every instance that exists, also while another thread holds the write
\* guard of the instance's Timer.
C21_HotkeysActOnPressOnly ==
    /\ [][\A i \in Inst : HotkeyCall(i, FALSE) => UNCHANGED vars]_vars
    /\ [](\A i \in Inst :
             pc[i] \in Alive
                => /\ ENABLED split(i, FALSE)
                   /\ ENABLED reset(i, FALSE)
                   /\ ENABLED undo(i, FALSE)
                   /\ ENABLED skip(i, FALSE)
                   /\ ENABLED pause_hotkey(i, FALSE)
                   /\ ENABLED undo_all_pauses(i, FALSE)
                   /\ ENABLED previous_comparison(i, FALSE)
                   /\ ENABLED next_comparison(i, FALSE)
                   /\ ENABLED toggle_timing_method(i, FALSE))

\* Key presses have paused the shared Timer after a skip and changed its
\* timing method and comparison; the thread of instance 2 is inside a
\* restart and holds the Timer's write guard while instance 1 exists.
C21_Witness ==
    /\ pc[1] = "active"
    /\ timer[1] = timer[2]
    /\ rwlock[timer[1]] = 2
    /\ ctl[2] = "restart_reset"
    /\ timerObj[timer[1]].phase = "Paused"
    /\ timerObj[timer[1]].index = 1
    /\ timerObj[timer[1]].method = "GameTime"
    /\ timerObj[timer[1]].comparison = NumComparisons - 1

\* Entries of the registry ts recorded under path p.
EntriesIn(ts, p) == {k \in 1..Len(ts) : ts[k].path = p}

\* C22: the registry holds at most one entry per splits identity.
C22_OneEntryPerIdentity ==
    \A p \in Paths : Cardinality(EntriesOf(p)) <= 1

\* C22, amended: the registry holds at most two entries per splits identity;
\* every entry of an identity but its newest is stale, so at most one refers
\* to a live Timer; and the prune at the start of a resolve leaves at most
\* one entry per identity.
C22_OneLiveEntryPerIdentity ==
    /\ [](\A p \in Paths :
             /\ Cardinality(EntriesOf(p)) <= 2
             /\ \A k, l \in EntriesOf(p) : k < l => ~Live(TIMERS[k].timer))
    /\ [][(lockHolder = NoThread /\ lockHolder' # NoThread)
             => \A p \in Paths : Cardinality(EntriesIn(TIMERS', p)) <= 1]_vars

\* Instance j was destroyed after instance i's resolve had pruned, and took
\* the last owner of the path's Timer with it (with the auto-splitter built
\* in, only the destroy releases it); the resolve missed and has inserted a
\* new Timer: the path has a stale entry and a live one.
C22_Witness ==
    \E i, j \in Inst, k, l \in 1..Len(TIMERS) :
        /\ pc[j] = "destroyed"
        /\ autoSplitting
        /\ pc[i] = "new_finish"
        /\ k < l
        /\ TIMERS[k].path = TIMERS[l].path
        /\ ~Live(TIMERS[k].timer)
        /\ TIMERS[l].timer = newTimer[i]

====
